---- MODULE Spec2Model ----
(***************************************************************************)
(* Model of the live telemetry client of bison-pulse:                      *)
(*   - BisonStreamManager (src/src/lib/stream.ts): EventSource first,      *)
(*     bounded reconnection, fallback to polling;                          *)
(*   - getLatest (src/src/lib/api.ts): the poll-path fetch;                *)
(*   - useBisonStream (src/unnamed/part_003): the rolling buffer and the   *)
(*     presentation status fed by the manager's two callbacks.             *)
(* The browser is the environment: EventSource objects with their          *)
(* readyState, setTimeout / setInterval handles, fetches in flight.        *)
(* Every macrotask of the event loop (a handler, a timer callback, a       *)
(* public call) is one action; promise reactions run inside it.            *)
(***************************************************************************)
EXTENDS Integers, Sequences, FiniteSets, Bags, TLC

VARIABLES
    eventSource,        \* this.eventSource: Null or the index in sources of an EventSource
    pollingInterval,    \* this.pollingInterval: Null or a setInterval handle
    isUsingSSE,         \* this.isUsingSSE
    reconnectAttempts,  \* this.reconnectAttempts
    sources,            \* every EventSource created so far, with the closure of its startSSE call
    retryTimers,        \* bag of the delays of the pending retry setTimeout calls
    intervals,          \* setInterval handles that were created and not cleared
    intervalsCreated,   \* number of setInterval calls so far (the next handle)
    inflight,           \* pollData calls that await getLatest()
    detections,         \* useBisonStream: the detections state (history buffer)
    status,             \* useBisonStream: the status state (isLive, connectionType)
    kpiData,            \* useBisonStream: the kpiData state
    now,                \* the wall clock (Date.now()), in minutes
    session,            \* history: "idle" (never started), "running" (start() called last), "stopped"
    op,                 \* history: the operation the last step ran
    out,                \* history: the callbacks the last step invoked, in order
    appended,           \* history: every event handed to handleNewDetection, in arrival order
    downgraded,         \* history: startPolling() has run since the last start() / stop()
    failures,           \* history: stream failures (error, connect timeout) since the session
                        \* started with reconnectAttempts = 0 or since the last open; -1: not counting
    input               \* history: the payload / fetch outcome the last step handled

mgrVars == <<eventSource, pollingInterval, isUsingSSE, reconnectAttempts>>
envVars == <<sources, retryTimers, intervals, intervalsCreated, inflight>>
hookVars == <<detections, status, kpiData>>
vars == <<eventSource, pollingInterval, isUsingSSE, reconnectAttempts,
          sources, retryTimers, intervals, intervalsCreated, inflight,
          detections, status, kpiData, now,
          session, op, out, appended, downgraded, failures, input>>

----------------------------------------------------------------------------
(* Program constants *)

MAX_DATA_POINTS == 1800
maxReconnectAttempts == 3
RetryBaseMs == 2000
KPI_WINDOW_MINUTES == 15

(* Bounds of the model *)

MaxSources == 2         \* EventSource objects created in one run
MaxRetryTimers == 1     \* retry timers pending at once
MaxIntervals == 2       \* setInterval calls in one run
MaxInflight == 1        \* poll fetches in flight at once
MaxDeliveries == 1      \* events handed to handleNewDetection in one run of Spec
PrefillGap == 2         \* SpecBuffer starts this many entries below the capacity
MaxAppends == 4         \* appends in one run of SpecBuffer and of SpecKpi
MaxTicks == 2           \* clock ticks in one run of SpecKpi
RandomSteps == 12       \* Math.random() returns k / RandomSteps, k in 0..RandomSteps-1

Null == 0

----------------------------------------------------------------------------
(* JSON values and the record transform (stream.ts 55-61, api.ts 15-21) *)

Undefined == [t |-> "undefined", n |-> 0, s |-> ""]
JsonNull == [t |-> "null", n |-> 0, s |-> ""]
Num(k) == [t |-> "number", n |-> k, s |-> ""]
Str(x) == [t |-> "string", n |-> 0, s |-> x]

\* JavaScript truthiness, as used by the || operator
Truthy(v) ==
    CASE v.t = "undefined" -> FALSE
      [] v.t = "null"      -> FALSE
      [] v.t = "number"    -> v.n # 0
      [] v.t = "string"    -> v.s # ""
      [] OTHER             -> TRUE

\* a || b
Or(a, b) == IF Truthy(a) THEN a ELSE b

\* A parsed record: a missing key reads as undefined
Raw(ts, bc, c, mv, fps, src) ==
    [timestamp |-> ts, bison_count |-> bc, count |-> c, movement |-> mv, fps |-> fps, source |-> src]

\* The clock starts here; times are minutes, fps values are tenths of a frame
StartTime == 2 * KPI_WINDOW_MINUTES
Times == 0..(StartTime + KPI_WINDOW_MINUTES + MaxTicks * KPI_WINDOW_MINUTES)

\* Date.prototype.toISOString()
toISOString(time) == Str(ToString(time))

\* new Date(v): the time a value parses to, or Invalid Date
InvalidDate == [valid |-> FALSE, time |-> 0]
NewDate(v) ==
    IF v.t = "number" THEN [valid |-> TRUE, time |-> v.n]
    ELSE IF v.t = "string" /\ \E k \in Times : v.s = ToString(k)
         THEN [valid |-> TRUE, time |-> CHOOSE k \in Times : v.s = ToString(k)]
         ELSE InvalidDate

\* new Date().toISOString() at time t
AcquisitionTime(t) == toISOString(t)

\* the source default of the count field read from the count key alone
TransformCountKeyOnly(data, t) ==
    [timestamp |-> Or(data.timestamp, AcquisitionTime(t)),
     count     |-> Or(data.count, Num(0)),
     movement  |-> Or(data.movement, Str("stationary")),
     fps       |-> Or(data.fps, Num(0)),
     source    |-> Or(data.source, Str("rtsp"))]

\* a missing source defaulted to the other provenance tag
TransformDefaultSample(data, t) ==
    [timestamp |-> Or(data.timestamp, AcquisitionTime(t)),
     count     |-> Or(Or(data.bison_count, data.count), Num(0)),
     movement  |-> Or(data.movement, Str("stationary")),
     fps       |-> Or(data.fps, Num(0)),
     source    |-> Or(data.source, Str("sample"))]

\* the onmessage transform (stream.ts 55-61), at time t
Transform(data, t) ==
    [timestamp |-> Or(data.timestamp, AcquisitionTime(t)),
     count     |-> Or(Or(data.bison_count, data.count), Num(0)),
     movement  |-> Or(data.movement, Str("stationary")),
     fps       |-> Or(data.fps, Num(0)),
     source    |-> Or(data.source, Str("rtsp"))]

\* a poll-path transform that reads the count from the count key first
TransformLatestCountFirst(data, t) ==
    [timestamp |-> Or(data.timestamp, AcquisitionTime(t)),
     count     |-> Or(Or(data.count, data.bison_count), Num(0)),
     movement  |-> Or(data.movement, Str("stationary")),
     fps       |-> Or(data.fps, Num(0)),
     source    |-> Or(data.source, Str("rtsp"))]

\* the transform of getLatest (api.ts 15-21), at time t
TransformLatest(data, t) ==
    [timestamp |-> Or(data.timestamp, AcquisitionTime(t)),
     count     |-> Or(Or(data.bison_count, data.count), Num(0)),
     movement  |-> Or(data.movement, Str("stationary")),
     fps       |-> Or(data.fps, Num(0)),
     source    |-> Or(data.source, Str("rtsp"))]

\* Payloads of a stream message and bodies of a poll response:
\*   "invalid": text that JSON.parse rejects;
\*   "null":    the JSON null, whose property reads throw a TypeError;
\*   "scalar":  a JSON number, string, boolean or array: every key reads undefined;
\*   "record":  a JSON object.
\* A poll can also fail ("failed": network error or a non-success HTTP status).
RecordA == Raw(Str("T1"), Num(3), Undefined, Str("north"), Num(245), Str("rtsp"))
RecordB == Raw(Undefined, Undefined, Num(0), Undefined, Undefined, Undefined)
NoRecord == Raw(Undefined, Undefined, Undefined, Undefined, Undefined, Undefined)
NoDraw == [i \in 1..4 |-> 0]
Payload(kind, rec) == [kind |-> kind, rec |-> rec, rand |-> NoDraw]
Payloads == {Payload("invalid", NoRecord), Payload("record", RecordA)}

\* what the handler reads from a parsed payload
Parsed(p) == IF p.kind = "record" THEN p.rec ELSE NoRecord

Movements == <<"north", "south", "east", "west", "stationary">>
SourceTags == <<"rtsp", "sample">>

\* Math.floor(Math.random() * n) for Math.random() = u / RandomSteps
FloorRandom(u, n) == (u * n) \div RandomSteps

\* Math.floor(Math.random() * 12), the + 1 forgotten
MockCountFromZero(u) == FloorRandom(u, 12)

\* Math.floor(Math.random() * 12) + 1
MockCount(u) == FloorRandom(u, 12) + 1

\* generateMockData (api.ts 75-86) at time t; rand are the four Math.random() draws
generateMockData(rand, t) ==
    [timestamp |-> toISOString(t),
     count     |-> Num(MockCount(rand[1])),
     movement  |-> Str(Movements[FloorRandom(rand[2], Len(Movements)) + 1]),
     fps       |-> Num((2 * (200 * RandomSteps + 100 * rand[3]) + RandomSteps) \div (2 * RandomSteps)),
     source    |-> Str(SourceTags[FloorRandom(rand[4], Len(SourceTags)) + 1])]

MockDraw == [i \in 1..4 |-> i]

\* Outcomes of the fetch of getLatest()
FetchOutcomes == {Payload("record", RecordA), [kind |-> "failed", rec |-> NoRecord, rand |-> MockDraw]}

NoData == [timestamp |-> Undefined, count |-> Undefined, movement |-> Undefined,
           fps |-> Undefined, source |-> Undefined]

\* getLatest with the catch block rethrowing instead of falling back to mock data
getLatestRethrows(o, t) ==
    IF o.kind \in {"record", "scalar"}
    THEN [rejected |-> FALSE, value |-> TransformLatest(Parsed(o), t)]
    ELSE [rejected |-> TRUE, value |-> NoData]

\* getLatest (api.ts 6-26): the promise it returns, settled
getLatest(o, t) ==
    IF o.kind \in {"record", "scalar"}
    THEN [rejected |-> FALSE, value |-> TransformLatest(Parsed(o), t)]
    ELSE [rejected |-> FALSE, value |-> generateMockData(o.rand, t)]

NoInput == [kind |-> "none", rec |-> NoRecord, rand |-> NoDraw]

----------------------------------------------------------------------------
(* The manager and its environment as one record, so that a handler's     *)
(* statements compose in program order.                                    *)

Cur ==
    [eventSource |-> eventSource, pollingInterval |-> pollingInterval,
     isUsingSSE |-> isUsingSSE, reconnectAttempts |-> reconnectAttempts,
     sources |-> sources, retryTimers |-> retryTimers, intervals |-> intervals,
     intervalsCreated |-> intervalsCreated, inflight |-> inflight, out |-> <<>>,
     now |-> now]

getConnectionTypeOf(m) ==
    IF m.eventSource = Null /\ m.pollingInterval = Null THEN "offline"
    ELSE IF m.isUsingSSE THEN "sse" ELSE "polling"

getConnectionType == getConnectionTypeOf(Cur)

\* this.onStatusChange(s); ct is what getConnectionType() returns at the call
onStatusChange(m, s) ==
    [m EXCEPT !.out = Append(@, [cb |-> "onStatusChange", status |-> s, data |-> NoData,
                                 via |-> "none", ct |-> getConnectionTypeOf(m)])]

\* this.onMessage(d); via records the transport the event came from
onMessage(m, d, via) ==
    [m EXCEPT !.out = Append(@, [cb |-> "onMessage", status |-> "none", data |-> d,
                                 via |-> via, ct |-> getConnectionTypeOf(m)])]

\* eventSource.close() on source i (no-op on a closed one)
CloseSource(m, i) == [m EXCEPT !.sources[i].readyState = "CLOSED"]

\* clearTimeout(timeout) in the closure of source i
ClearTimeoutOf(m, i) == [m EXCEPT !.sources[i].timeout = FALSE]

\* startPolling without the immediate pollData() call
startPollingNoFetch(m) ==
    LET m2 == onStatusChange([m EXCEPT !.isUsingSSE = FALSE], "connected")
        h  == m2.intervalsCreated + 1
    IN  [m2 EXCEPT !.intervalsCreated = h, !.intervals = @ \cup {h}, !.pollingInterval = h]

\* startPolling (stream.ts 87-106): pollData() once, then setInterval
startPolling(m) ==
    LET m1 == [m EXCEPT !.isUsingSSE = FALSE]
        m2 == onStatusChange(m1, "connected")
        m3 == [m2 EXCEPT !.inflight = @ + 1]
        h  == m3.intervalsCreated + 1
    IN  [m3 EXCEPT !.intervalsCreated = h, !.intervals = @ \cup {h}, !.pollingInterval = h]

\* reject(...) of the promise of source i: start()'s catch and the retry's
\* .catch both call startPolling(); a settled promise ignores it
Reject(m, i) ==
    IF m.sources[i].promise = "pending"
    THEN startPolling([m EXCEPT !.sources[i].promise = "rejected"])
    ELSE m

\* resolve() of the promise of source i
Resolve(m, i) ==
    IF m.sources[i].promise = "pending"
    THEN [m EXCEPT !.sources[i].promise = "resolved"]
    ELSE m

\* start() without its try / catch: the rejection reaches the caller
startPromiseUncaught(p) ==
    CASE p = "pending"  -> "pending"
      [] p = "resolved" -> "fulfilled"
      [] p = "rejected" -> "rejected"

\* the promise start() returns (stream.ts 23-31), given the promise of the
\* startSSE() call it awaits: a rejection is caught and startPolling(), which
\* returns normally, runs in the catch block. The retry's
\* startSSE().catch(() => this.startPolling()) (stream.ts 77) has the same shape.
startPromise(p) ==
    CASE p = "pending"  -> "pending"
      [] p = "resolved" -> "fulfilled"
      [] p = "rejected" -> "fulfilled"

\* startSSE (stream.ts 33-41): new EventSource, connect timeout armed
startSSE(m) ==
    LET i == Len(m.sources) + 1
    IN  [m EXCEPT !.sources = Append(@, [readyState |-> "CONNECTING", timeout |-> TRUE,
                                         promise |-> "pending"]),
                  !.eventSource = i]

\* stop that closes the EventSource and keeps the reference to it
stopKeepsReference(m) ==
    LET m1 == IF m.eventSource # Null THEN CloseSource(m, m.eventSource) ELSE m
        m2 == IF m1.pollingInterval # Null
              THEN [m1 EXCEPT !.intervals = @ \ {m1.pollingInterval}, !.pollingInterval = Null]
              ELSE m1
    IN  onStatusChange(m2, "disconnected")

\* stop (stream.ts 108-120)
stop(m) ==
    LET m1 == IF m.eventSource # Null
              THEN [CloseSource(m, m.eventSource) EXCEPT !.eventSource = Null]
              ELSE m
        m2 == IF m1.pollingInterval # Null
              THEN [m1 EXCEPT !.intervals = @ \ {m1.pollingInterval}, !.pollingInterval = Null]
              ELSE m1
    IN  onStatusChange(m2, "disconnected")

\* onopen without this.reconnectAttempts = 0
onopenKeepsAttempts(m, i) ==
    LET m2 == [ClearTimeoutOf(m, i) EXCEPT !.isUsingSSE = TRUE]
    IN  Resolve(onStatusChange(m2, "connected"), i)

\* eventSource.onopen (stream.ts 42-48)
onopen(m, i) ==
    LET m1 == ClearTimeoutOf(m, i)
        m2 == [m1 EXCEPT !.isUsingSSE = TRUE, !.reconnectAttempts = 0]
    IN  Resolve(onStatusChange(m2, "connected"), i)

\* eventSource.onmessage (stream.ts 50-67): JSON.parse or a property read
\* that throws lands in the catch block
onmessage(m, p) ==
    IF p.kind \in {"invalid", "null"} THEN m
    ELSE onMessage(m, Transform(Parsed(p), m.now), "sse")

\* pollData (stream.ts 92-101) once getLatest() has settled
pollData(m, o) ==
    LET m1 == [m EXCEPT !.inflight = @ - 1]
        r  == getLatest(o, m.now)
    IN  IF r.rejected THEN onStatusChange(m1, "error") ELSE onMessage(m1, r.value, "poll")

\* onerror that retries whatever the counter is
onerrorUnbounded(m, i) ==
    LET m1 == onStatusChange(ClearTimeoutOf(m, i), "error")
        n  == m1.reconnectAttempts + 1
    IN  [m1 EXCEPT !.reconnectAttempts = n,
                   !.retryTimers = @ (+) SetToBag({RetryBaseMs * n})]

\* eventSource.onerror (stream.ts 69-83)
onerror(m, i) ==
    LET m1 == onStatusChange(ClearTimeoutOf(m, i), "error")
    IN  IF m1.reconnectAttempts < maxReconnectAttempts
        THEN LET n == m1.reconnectAttempts + 1
             IN  [m1 EXCEPT !.reconnectAttempts = n,
                            !.retryTimers = @ (+) SetToBag({RetryBaseMs * n})]
        ELSE Reject(m1, i)

\* the connect-timeout callback of source i (stream.ts 37-40)
ontimeout(m, i) ==
    LET m1 == [m EXCEPT !.sources[i].timeout = FALSE]
        m2 == IF m1.eventSource # Null THEN CloseSource(m1, m1.eventSource) ELSE m1
    IN  Reject(m2, i)

\* a retry callback that does not look at readyState
onretryAlways(m, d) == startSSE([m EXCEPT !.retryTimers = @ (-) SetToBag({d})])

\* the retry callback (stream.ts 75-79)
onretry(m, d) ==
    LET m1 == [m EXCEPT !.retryTimers = @ (-) SetToBag({d})]
    IN  IF m1.eventSource # Null /\ m1.sources[m1.eventSource].readyState = "CLOSED"
        THEN startSSE(m1)
        ELSE m1

----------------------------------------------------------------------------
(* useBisonStream *)

\* slice(-(n + 1)): the capacity test off by one
SliceLastOffByOne(s, n) == IF Len(s) <= n + 1 THEN s ELSE SubSeq(s, Len(s) - n, Len(s))

\* slice(0, n): the newest entries dropped instead of the oldest
SliceFirst(s, n) == IF Len(s) <= n THEN s ELSE SubSeq(s, 1, n)

\* Array.prototype.slice(-n)
SliceLast(s, n) == IF Len(s) <= n THEN s ELSE SubSeq(s, Len(s) - n + 1, Len(s))

\* the oldest entry taken for the latest one
OldestOf(dets) == dets[1]

\* detections[detections.length - 1]
LatestOf(dets) == dets[Len(dets)]

RECURSIVE SumCounts(_)
SumCounts(dets) == IF dets = <<>> THEN 0 ELSE Head(dets).count.n + SumCounts(Tail(dets))

\* d => new Date(d.timestamp) >= windowStart (false for an Invalid Date)
InWindow(d, windowStart) ==
    LET date == NewDate(d.timestamp) IN date.valid /\ date.time >= windowStart

\* the KPI effect (part_003 61-82) on a non-empty buffer at time t; the
\* average is kept as the fraction sum / length
kpiEffect(dets, t) ==
    LET latest == LatestOf(dets)
        windowStart == t - KPI_WINDOW_MINUTES
        recentDetections == SelectSeq(dets, LAMBDA d : InWindow(d, windowStart))
    IN  [currentCount |-> latest.count,
         averageCount |-> IF Len(recentDetections) > 0
                          THEN [num |-> SumCounts(recentDetections), den |-> Len(recentDetections)]
                          ELSE [num |-> 0, den |-> 1],
         fps          |-> latest.fps,
         lastUpdate   |-> latest.timestamp]

\* handleNewDetection (part_003 36-48)
handleNewDetection(h, d) ==
    [detections |-> SliceLast(Append(h.detections, d), MAX_DATA_POINTS),
     status     |-> [h.status EXCEPT !.isLive = TRUE]]

\* a status handler that also drops the history when the stream is lost
handleStatusChangeClears(h, s, ct) ==
    [detections |-> IF s = "connected" THEN h.detections ELSE <<>>,
     status     |-> [isLive |-> (s = "connected"),
                     connectionType |-> IF s = "connected" THEN ct ELSE "offline"]]

\* handleStatusChange (part_003 50-58)
handleStatusChange(h, s, ct) ==
    [detections |-> h.detections,
     status     |-> [isLive |-> (s = "connected"),
                     connectionType |-> IF s = "connected" THEN ct ELSE "offline"]]

\* the callbacks of one step, applied in order
RECURSIVE ApplyCallbacks(_, _)
ApplyCallbacks(h, cbs) ==
    IF cbs = <<>> THEN h
    ELSE LET c == Head(cbs)
         IN  ApplyCallbacks(IF c.cb = "onMessage"
                            THEN handleNewDetection(h, c.data)
                            ELSE handleStatusChange(h, c.status, c.ct),
                            Tail(cbs))

Delivered(cbs) == SelectSeq(cbs, LAMBDA c : c.cb = "onMessage")

RECURSIVE DataOf(_)
DataOf(cbs) == IF cbs = <<>> THEN <<>> ELSE <<Head(cbs).data>> \o DataOf(Tail(cbs))

FailureCap == maxReconnectAttempts + 2

\* the failure count after a step that ran operation name
FailuresAfter(m, name) ==
    CASE name \in {"start", "restart"} -> IF m.reconnectAttempts = 0 THEN 0 ELSE -1
      [] name = "stop" -> -1
      [] name = "onopen" -> IF session = "running" THEN 0 ELSE -1
      [] name \in {"onerror", "timeout"} ->
            IF failures >= 0 /\ failures < FailureCap THEN failures + 1 ELSE failures
      [] OTHER -> failures

\* The manager's side of a step that ran operation name and left it as m0
\* (bound to m, so that the handler is evaluated once), with at most cap
\* EventSource objects created so far
CommitWithin(m0, name, cap) ==
  \E m \in {m0} :
    /\ Len(m.sources) <= cap
    /\ BagCardinality(m.retryTimers) <= MaxRetryTimers
    /\ m.intervalsCreated <= MaxIntervals
    /\ m.inflight <= MaxInflight
    /\ eventSource' = m.eventSource
    /\ pollingInterval' = m.pollingInterval
    /\ isUsingSSE' = m.isUsingSSE
    /\ reconnectAttempts' = m.reconnectAttempts
    /\ sources' = m.sources
    /\ retryTimers' = m.retryTimers
    /\ intervals' = m.intervals
    /\ intervalsCreated' = m.intervalsCreated
    /\ inflight' = m.inflight
    /\ out' = m.out
    /\ op' = name
    /\ downgraded' = IF name \in {"start", "restart", "stop"} THEN FALSE
                     ELSE downgraded \/ m.intervalsCreated > intervalsCreated
    /\ failures' = FailuresAfter(m, name)
    /\ now' = now

CommitManager(m0, name) == CommitWithin(m0, name, MaxSources)

\* A step that ran operation name and left the manager as m0, its callbacks
\* being those of useBisonStream
Commit(m0, name) ==
  \E m \in {m0} :
    /\ CommitManager(m, name)
    /\ Len(appended) + Len(Delivered(m.out)) <= MaxDeliveries
    /\ appended' = appended \o DataOf(Delivered(m.out))
    /\ LET h == ApplyCallbacks([detections |-> detections, status |-> status], m.out)
       IN  /\ detections' = h.detections
           /\ status' = h.status
           /\ kpiData' = IF Delivered(m.out) # <<>> THEN kpiEffect(h.detections, now) ELSE kpiData

----------------------------------------------------------------------------
(* Actions *)

InitManager ==
    /\ eventSource = Null
    /\ pollingInterval = Null
    /\ isUsingSSE = FALSE
    /\ reconnectAttempts = 0
    /\ sources = <<>>
    /\ retryTimers = EmptyBag
    /\ intervals = {}
    /\ intervalsCreated = 0
    /\ inflight = 0
    /\ session = "idle"
    /\ op = "init"
    /\ out = <<>>
    /\ status = [isLive |-> FALSE, connectionType |-> "offline"]
    /\ kpiData = [currentCount |-> Num(0), averageCount |-> [num |-> 0, den |-> 1],
                  fps |-> Num(0), lastUpdate |-> Str("")]
    /\ now = StartTime
    /\ input = NoInput
    /\ downgraded = FALSE
    /\ failures = -1

Init ==
    /\ InitManager
    /\ detections = <<>>
    /\ appended = <<>>

\* start() on a manager that is not running (stream.ts 23-31)
Start ==
    /\ session # "running"
    /\ Commit(startSSE(Cur), "start")
    /\ session' = "running"
    /\ input' = NoInput

\* start() again while the session is running
StartAgain ==
    /\ session = "running"
    /\ Commit(startSSE(Cur), "start")
    /\ session' = "running"
    /\ input' = NoInput

\* stop()
Stop ==
    /\ Commit(stop(Cur), "stop")
    /\ session' = "stopped"
    /\ input' = NoInput

\* restart() of useBisonStream (part_003 103-106): stop(); start()
Restart ==
    /\ session # "idle"
    /\ Commit(startSSE(stop(Cur)), "restart")
    /\ session' = "running"
    /\ input' = NoInput

\* the browser opens the connection of source i
SourceOpen(i) ==
    /\ sources[i].readyState = "CONNECTING"
    /\ Commit(onopen([Cur EXCEPT !.sources[i].readyState = "OPEN"], i), "onopen")
    /\ input' = NoInput
    /\ UNCHANGED session

\* a message event on source i
SourceMessage(i, p) ==
    /\ sources[i].readyState = "OPEN"
    /\ Commit(onmessage(Cur, p), "onmessage")
    /\ input' = p
    /\ UNCHANGED session

\* an error event on source i: the browser either reconnects by itself
\* (readyState CONNECTING) or fails the connection (readyState CLOSED)
SourceError(i, next) ==
    /\ sources[i].readyState \in {"CONNECTING", "OPEN"}
    /\ Commit(onerror([Cur EXCEPT !.sources[i].readyState = next], i), "onerror")
    /\ input' = NoInput
    /\ UNCHANGED session

\* the 10 s connect timeout of source i fires
ConnectTimeout(i) ==
    /\ sources[i].timeout
    /\ Commit(ontimeout(Cur, i), "timeout")
    /\ input' = NoInput
    /\ UNCHANGED session

\* a retry timer fires
RetryTimer(d) ==
    /\ BagIn(d, retryTimers)
    /\ Commit(onretry(Cur, d), "retry")
    /\ input' = NoInput
    /\ UNCHANGED session

\* a tick of a running interval: pollData() starts a fetch
PollTick(h) ==
    /\ h \in intervals
    /\ Commit([Cur EXCEPT !.inflight = @ + 1], "polltick")
    /\ input' = NoInput
    /\ UNCHANGED session

\* getLatest() settles and pollData resumes (stream.ts 95-100)
PollResponse(o) ==
    /\ inflight > 0
    /\ Commit(pollData(Cur, o), "pollresponse")
    /\ input' = o
    /\ UNCHANGED session

Events ==
    \/ \E i \in DOMAIN sources : SourceOpen(i)
    \/ \E i \in DOMAIN sources, p \in Payloads : SourceMessage(i, p)
    \/ \E i \in DOMAIN sources, next \in {"CONNECTING", "CLOSED"} : SourceError(i, next)
    \/ \E i \in DOMAIN sources : ConnectTimeout(i)
    \/ \E d \in BagToSet(retryTimers) : RetryTimer(d)
    \/ \E h \in intervals : PollTick(h)
    \/ \E o \in FetchOutcomes : PollResponse(o)

Next == Start \/ Stop \/ Restart \/ Events

Spec == Init /\ [][Next]_vars

\* the same, with a caller that may call start() while the session runs
NextReentrant == Next \/ StartAgain

SpecReentrant == Init /\ [][NextReentrant]_vars

----------------------------------------------------------------------------
(* The hook and the manager over short sessions: start, stop and restart,   *)
(* opens, errors, timeouts, messages and poll responses; retry timers and   *)
(* interval ticks stay pending.                                             *)

NextHook ==
    \/ Start
    \/ Stop
    \/ Restart
    \/ \E i \in DOMAIN sources : SourceOpen(i)
    \/ \E i \in DOMAIN sources, p \in Payloads : SourceMessage(i, p)
    \/ \E i \in DOMAIN sources, next \in {"CONNECTING", "CLOSED"} : SourceError(i, next)
    \/ \E i \in DOMAIN sources : ConnectTimeout(i)
    \/ \E o \in FetchOutcomes : PollResponse(o)

SpecHook == Init /\ [][NextHook]_vars

----------------------------------------------------------------------------
(* The manager alone, under fair scheduling: its callbacks are recorded in  *)
(* out and do nothing else, so the state stays finite over an endless run.  *)
(* A pending timer fires, a running interval ticks and a fetch settles;     *)
(* what the server and the network do to an EventSource is not fair. The    *)
(* caller starts the manager once and never stops it.                       *)

\* A step of the manager with callbacks that keep no state
Handle(m, name, in, s) ==
    /\ CommitManager(m, name)
    /\ input' = in
    /\ session' = s
    /\ UNCHANGED <<hookVars, appended>>

ManagerStart == session # "running" /\ Handle(startSSE(Cur), "start", NoInput, "running")

ManagerOpen(i) ==
    /\ sources[i].readyState = "CONNECTING"
    /\ Handle(onopen([Cur EXCEPT !.sources[i].readyState = "OPEN"], i), "onopen", NoInput, session)

ManagerError(i, next) ==
    /\ sources[i].readyState \in {"CONNECTING", "OPEN"}
    /\ Handle(onerror([Cur EXCEPT !.sources[i].readyState = next], i), "onerror", NoInput, session)

ManagerTimeout(i) == sources[i].timeout /\ Handle(ontimeout(Cur, i), "timeout", NoInput, session)

ManagerRetry(d) == BagIn(d, retryTimers) /\ Handle(onretry(Cur, d), "retry", NoInput, session)

ManagerTick(h) ==
    h \in intervals /\ Handle([Cur EXCEPT !.inflight = @ + 1], "polltick", NoInput, session)

ManagerResponse(o) == inflight > 0 /\ Handle(pollData(Cur, o), "pollresponse", o, session)

Timeouts == \E i \in DOMAIN sources : ManagerTimeout(i)
Retries == \E d \in BagToSet(retryTimers) : ManagerRetry(d)
Ticks == \E h \in intervals : ManagerTick(h)
Responses == \E o \in FetchOutcomes : ManagerResponse(o)

NextFair ==
    \/ ManagerStart
    \/ \E i \in DOMAIN sources : ManagerOpen(i)
    \/ \E i \in DOMAIN sources, next \in {"CONNECTING", "CLOSED"} : ManagerError(i, next)
    \/ Timeouts
    \/ Retries
    \/ Ticks
    \/ Responses

SpecFair ==
    /\ Init
    /\ [][NextFair]_vars
    /\ WF_vars(Timeouts)
    /\ WF_vars(Retries)
    /\ WF_vars(Ticks)
    /\ WF_vars(Responses)

\* The manager alone with a caller that also stops and restarts it, and a
\* stream that delivers messages; no fairness.

ManagerStop == Handle(stop(Cur), "stop", NoInput, "stopped")

ManagerRestart == session # "idle" /\ Handle(startSSE(stop(Cur)), "restart", NoInput, "running")

ManagerMessage(i, p) ==
    sources[i].readyState = "OPEN" /\ Handle(onmessage(Cur, p), "onmessage", p, session)

NextManager ==
    \/ NextFair
    \/ ManagerStop
    \/ ManagerRestart
    \/ \E i \in DOMAIN sources, p \in Payloads : ManagerMessage(i, p)

SpecManager == Init /\ [][NextManager]_vars

\* The manager alone in a session that falls back to polling and is then
\* restarted by the caller: restart() may create one EventSource more than
\* the session before it.

RestartFromPolling ==
    /\ session = "running"
    /\ pollingInterval # Null
    /\ CommitWithin(startSSE(stop(Cur)), "restart", MaxSources + 1)
    /\ input' = NoInput
    /\ session' = "running"
    /\ UNCHANGED <<hookVars, appended>>

NextRestart == NextFair \/ RestartFromPolling

SpecRestart == Init /\ [][NextRestart]_vars

----------------------------------------------------------------------------
(* The aggregator alone: events handed straight to handleNewDetection, from *)
(* an empty buffer or from one that earlier appends filled to PrefillGap    *)
(* entries below the capacity.                                              *)

\* the i-th event of the earlier appends; timestamps are not in arrival order
PrefillEvent(i) ==
    [timestamp |-> Str(ToString((i * 7) % 5)), count |-> Num(i), movement |-> Str("stationary"),
     fps |-> Num(0), source |-> Str("rtsp")]

Prefill(n) == [i \in 1..n |-> PrefillEvent(i)]

PrefillLens == {0, MAX_DATA_POINTS - PrefillGap}

BufferEvents ==
    {Transform(Raw(Str("T2"), Num(5), Undefined, Undefined, Undefined, Undefined), StartTime),
     Transform(Raw(Str("T1"), Undefined, Num(9), Undefined, Undefined, Undefined), StartTime),
     Transform(RecordB, StartTime)}

InitBuffer ==
    /\ InitManager
    /\ \E n \in PrefillLens : detections = Prefill(n) /\ appended = Prefill(n)

\* handleNewDetection(d), called as the manager's onMessage callback, and
\* the KPI effect that the changed buffer triggers
Deliver(d) ==
    /\ \E n \in PrefillLens : Len(appended) >= n /\ Len(appended) < n + MaxAppends
    /\ LET h == handleNewDetection([detections |-> detections, status |-> status], d)
       IN  /\ detections' = h.detections
           /\ status' = h.status
           /\ kpiData' = kpiEffect(h.detections, now)
    /\ appended' = Append(appended, d)
    /\ op' = "deliver"
    /\ out' = <<[cb |-> "onMessage", status |-> "none", data |-> d, via |-> "sse",
                 ct |-> getConnectionType]>>
    /\ UNCHANGED <<mgrVars, envVars, now, session, downgraded, failures, input>>

NextBuffer == \E d \in BufferEvents : Deliver(d)

SpecBuffer == InitBuffer /\ [][NextBuffer]_vars

----------------------------------------------------------------------------
(* The aggregator under a moving clock: events with timestamps before the  *)
(* window, on its lower edge, later than the clock, and unparseable.        *)

KpiEvent(ts, n) == Transform(Raw(ts, Num(n), Undefined, Undefined, Undefined, Undefined), StartTime)

KpiEvents ==
    {KpiEvent(toISOString(StartTime - KPI_WINDOW_MINUTES - 5), 5),
     KpiEvent(toISOString(StartTime - 2), 9),
     KpiEvent(toISOString(StartTime + 5), 4),
     KpiEvent(Str("T1"), 7)}

\* time passes between two events
Tick ==
    /\ now < StartTime + MaxTicks * (KPI_WINDOW_MINUTES - 2)
    /\ now' = now + (KPI_WINDOW_MINUTES - 2)
    /\ op' = "tick"
    /\ out' = <<>>
    /\ input' = NoInput
    /\ UNCHANGED <<mgrVars, envVars, hookVars, session, appended, downgraded, failures>>

NextKpi == (\E d \in KpiEvents : Deliver(d)) \/ Tick

SpecKpi == Init /\ [][NextKpi]_vars

----------------------------------------------------------------------------
(* The two transforms on every raw record of a bounded set: the manager is *)
(* brought to streaming (start, open) or to polling (start, timeout) and   *)
(* handles one payload.                                                     *)

RawRecords ==
    {Raw(ts, bc, c, mv, fps, src) :
        ts  \in {Undefined, Str(""), toISOString(StartTime - 2)},
        bc  \in {Undefined, Num(0), Num(4), Num(-2)},
        c   \in {Undefined, Num(0), Num(5)},
        mv  \in {Undefined, JsonNull, Str("north"), Str("up")},
        fps \in {Undefined, Num(0), Num(245)},
        src \in {Undefined, Str("rtsp"), Str("drone")}}

AllPayloads ==
    {Payload("invalid", NoRecord), Payload("null", NoRecord), Payload("scalar", NoRecord)}
        \cup {Payload("record", r) : r \in RawRecords}

Draws == [1..4 -> 0..(RandomSteps - 1)]

AllFetchOutcomes ==
    AllPayloads \cup {[kind |-> "failed", rec |-> NoRecord, rand |-> d] : d \in Draws}

NextNormalizer ==
    \/ Start
    \/ \E i \in DOMAIN sources : SourceOpen(i)
    \/ \E i \in DOMAIN sources : ConnectTimeout(i)
    \/ appended = <<>> /\ \E i \in DOMAIN sources, p \in AllPayloads : SourceMessage(i, p)
    \/ appended = <<>> /\ \E o \in AllFetchOutcomes : PollResponse(o)

SpecNormalizer == Init /\ [][NextNormalizer]_vars

----------------------------------------------------------------------------
(* Claims *)

Min(a, b) == IF a <= b THEN a ELSE b

\* C1: after any sequence of events handed to handleNewDetection, the history
\* buffer never holds more than 1800 entries.
C1_BufferBounded == Len(detections) <= MAX_DATA_POINTS

\* an append that had to evict has run
C1_Witness ==
    /\ op = "deliver"
    /\ Len(appended) > MAX_DATA_POINTS
    /\ Len(detections) = MAX_DATA_POINTS

\* C2: after N appends the buffer is exactly the last min(N, 1800) appended
\* events, in arrival order, whatever their timestamps.
C2_LastInArrivalOrder ==
    /\ Len(detections) = Min(Len(appended), MAX_DATA_POINTS)
    /\ \A k \in 1..Len(detections) :
          detections[k] = appended[Len(appended) - Len(detections) + k]

\* two events past the capacity were appended, the last one older than the one
\* before it, and the event appended 1801 appends ago is gone
C2_Witness ==
    /\ op = "deliver"
    /\ Len(appended) = MAX_DATA_POINTS + 2
    /\ appended[Len(appended)].timestamp = Str("T1")
    /\ appended[Len(appended) - 1].timestamp = Str("T2")
    /\ detections[1] = appended[3]
    /\ \A k \in 1..Len(detections) : detections[k] # appended[2]

\* C3: once the manager has downgraded to polling it stays in polling until
\* an explicit restart: getConnectionType() does not return 'sse', no stream
\* open is accepted and no event comes from the stream.
C3_PollingIsPermanent ==
    (session = "running" /\ downgraded) =>
        /\ getConnectionType = "polling"
        /\ op # "onopen"
        /\ \A k \in 1..Len(out) : out[k].via # "sse"

\* C4: from attempt 0 and with no open in between, the manager moves to
\* polling after exactly 3 consecutive stream failures: a failure starts
\* polling only if it is the third, and the third does start it.
C4_PollingAfterThreeFailures ==
    (session = "running" /\ failures >= 0 /\ op \in {"onerror", "timeout"}) =>
        /\ (\E k \in 1..Len(out) : out[k].status = "connected") => failures = 3
        /\ failures >= 3 => downgraded

\* C5: at most one acquisition channel is active: no polling interval runs
\* while an EventSource that is not closed exists.
C5_OneChannel ==
    ~(intervals # {} /\ \E i \in DOMAIN sources : sources[i].readyState # "CLOSED")

\* C6: after stop() has returned and until the next start(), neither callback
\* fires, whatever was pending at the time of stop().
C6_SilentAfterStop == (session = "stopped" /\ op # "stop") => out = <<>>

\* C7: stop() on a manager that is stopped or was never started changes no
\* state and invokes no callback.
C7_StopIdempotent ==
    [][(session # "running" /\ op' = "stop") =>
         (out' = <<>> /\ UNCHANGED <<mgrVars, envVars, hookVars>>)]_vars

\* C8: after stop() every EventSource is closed, no polling interval runs and
\* no pending timer starts acquisition again before the next start().
C8_StopReleasesAll ==
    session = "stopped" =>
        /\ \A i \in DOMAIN sources : sources[i].readyState = "CLOSED"
        /\ intervals = {}

\* C9: a second start() without a stop() in between is ignored: it creates no
\* EventSource, timer or interval, and every live EventSource stays the one
\* stop() will close.
C9_SecondStartIgnored ==
    [][(session = "running" /\ op' = "start") =>
         /\ UNCHANGED <<mgrVars, envVars>>
         /\ \A i \in DOMAIN sources' : sources'[i].readyState # "CLOSED" => eventSource' = i]_vars

\* C10: getConnectionType() returns 'offline' whenever the manager was never
\* started or was stopped and not started again.
C10_OfflineWhenStopped == session \in {"idle", "stopped"} => getConnectionType = "offline"

\* C11: getConnectionType() reports the transport actually active: 'sse'
\* only while a stream connection is open, 'polling' only while a polling
\* loop runs; while connecting or waiting for a retry it reports neither.
C11_ReportsActiveTransport ==
    /\ getConnectionType = "sse" => \E i \in DOMAIN sources : sources[i].readyState = "OPEN"
    /\ getConnectionType = "polling" => intervals # {}

\* C18: every stream connection failure, a connect timeout or an error of
\* the transport, is reported through the status callback as 'error', once.
C18_FailureReportedAsError ==
    op \in {"onerror", "timeout"} =>
        Cardinality({k \in 1..Len(out) : out[k].cb = "onStatusChange" /\ out[k].status = "error"}) = 1

RECURSIVE SumAt(_, _)
SumAt(dets, S) ==
    IF S = {} THEN 0
    ELSE LET k == CHOOSE x \in S : TRUE IN dets[k].count.n + SumAt(dets, S \ {k})

\* the buffered events stamped within [lo, hi]
StampedWithin(lo, hi) ==
    {k \in 1..Len(detections) :
        /\ NewDate(detections[k].timestamp).valid
        /\ NewDate(detections[k].timestamp).time >= lo
        /\ NewDate(detections[k].timestamp).time <= hi}

\* averageCount is the mean of count over the buffered events at positions S
IsMeanOver(S) ==
    IF S = {} THEN kpiData.averageCount.num = 0
    ELSE kpiData.averageCount.num * Cardinality(S) = kpiData.averageCount.den * SumAt(detections, S)

\* C12: after every append, averageCount is the mean of count over exactly
\* the buffered events stamped within the trailing 15 minutes of the clock
\* (not later than now, not older than now - 15 min), and 0 if there is none.
C12_AverageOverTrailingWindow ==
    op = "deliver" => IsMeanOver(StampedWithin(now - KPI_WINDOW_MINUTES, now))

\* C13: after every append, currentCount, fps and lastUpdate are those of
\* the event appended last, also when its timestamp is the older one.
C13_SnapshotOfLastAppended ==
    op = "deliver" =>
        /\ kpiData.currentCount = appended[Len(appended)].count
        /\ kpiData.fps = appended[Len(appended)].fps
        /\ kpiData.lastUpdate = appended[Len(appended)].timestamp

\* the event appended last is older than the one before it and has another count
C13_Witness ==
    /\ op = "deliver"
    /\ Len(appended) >= 2
    /\ appended[Len(appended)] = KpiEvent(toISOString(StartTime - KPI_WINDOW_MINUTES - 5), 5)
    /\ appended[Len(appended) - 1] = KpiEvent(toISOString(StartTime - 2), 9)
    /\ kpiData.currentCount = Num(5)

\* the step normalized a record (stream or poll path) and delivered the event
Normalized == op \in {"onmessage", "pollresponse"} /\ input.kind = "record" /\ Len(out) = 1

\* C14: a stream message whose payload cannot be parsed as a structured
\* record is dropped: no callback fires and no state changes.
C14_MalformedDropped ==
    [][(op' = "onmessage" /\ input'.kind # "record") =>
         (out' = <<>> /\ UNCHANGED <<mgrVars, envVars, hookVars>>)]_vars

\* C15: a count n >= 0 carried under 'bison_count' only and the same n
\* carried under 'count' only both normalize to the canonical count n.
C15_CountKeysAgree ==
    Normalized =>
        /\ (/\ input.rec.bison_count.t = "number"
            /\ input.rec.bison_count.n >= 0
            /\ input.rec.count = Undefined) => out[1].data.count = input.rec.bison_count
        /\ (/\ input.rec.count.t = "number"
            /\ input.rec.count.n >= 0
            /\ input.rec.bison_count = Undefined) => out[1].data.count = input.rec.count

\* a record with bison_count 0 alone went through the stream transform
C15_Witness ==
    /\ Normalized
    /\ op = "onmessage"
    /\ input.rec.bison_count = Num(0)
    /\ input.rec.count = Undefined
    /\ out[1].data.count = Num(0)

\* the defaults of the normalizer
DefaultOf(f) ==
    CASE f = "timestamp" -> toISOString(now)
      [] f = "movement"  -> Str("stationary")
      [] f = "fps"       -> Num(0)
      [] f = "source"    -> Str("rtsp")

PlainFields == {"timestamp", "movement", "fps", "source"}

\* C16 as stated: a record missing any subset of fields normalizes to an
\* event where each missing field has its default and each present field
\* keeps its value.
C16_PresentKept ==
    Normalized =>
        /\ \A f \in PlainFields :
              out[1].data[f] = IF input.rec[f] = Undefined THEN DefaultOf(f) ELSE input.rec[f]
        /\ (input.rec.bison_count = Undefined /\ input.rec.count = Undefined)
              => out[1].data.count = Num(0)
        /\ (input.rec.bison_count # Undefined /\ input.rec.count = Undefined)
              => out[1].data.count = input.rec.bison_count
        /\ (input.rec.bison_count = Undefined /\ input.rec.count # Undefined)
              => out[1].data.count = input.rec.count

\* undefined, null, 0, the empty string, false
Falsy(v) ==
    \/ v.t \in {"undefined", "null"}
    \/ v.t \in {"number", "boolean"} /\ v.n = 0
    \/ v.t = "string" /\ v.s = ""

\* C16 amended: every field that is missing or falsy gets its default and
\* every field with a truthy value keeps it (count: bison_count if truthy,
\* otherwise count if truthy, otherwise 0).
C16_FalsyDefaulted ==
    Normalized =>
        /\ \A f \in PlainFields :
              out[1].data[f] = IF Falsy(input.rec[f]) THEN DefaultOf(f) ELSE input.rec[f]
        /\ out[1].data.count =
              IF ~Falsy(input.rec.bison_count) THEN input.rec.bison_count
              ELSE IF ~Falsy(input.rec.count) THEN input.rec.count
              ELSE Num(0)

\* a record with an empty timestamp, a null movement, no fps and an unknown
\* source was normalized
C16_Witness ==
    /\ Normalized
    /\ input.rec.timestamp = Str("")
    /\ input.rec.movement = JsonNull
    /\ input.rec.fps = Undefined
    /\ input.rec.source = Str("drone")
    /\ out[1].data.timestamp = toISOString(now)
    /\ out[1].data.movement = Str("stationary")
    /\ out[1].data.source = Str("drone")

\* C17: every event that reaches the callback or the buffer is structurally
\* valid: count a non-negative integer, movement one of the five directions,
\* source one of the two provenance tags.
C17_EventsValid ==
    \A k \in 1..Len(appended) :
        /\ appended[k].count.t = "number" /\ appended[k].count.n >= 0
        /\ appended[k].movement.t = "string"
        /\ appended[k].movement.s \in {"north", "south", "east", "west", "stationary"}
        /\ appended[k].source.t = "string"
        /\ appended[k].source.s \in {"rtsp", "sample"}

\* the fetch of this poll failed: network error, non-success status, or a
\* body that response.json() or the property reads reject
FetchFailed == op = "pollresponse" /\ input.kind \in {"failed", "invalid", "null"}

C20_GetLatestNeverRejects ==
    op = "pollresponse" =>
        /\ Len(out) = 1
        /\ out[1].cb = "onMessage"
        /\ FetchFailed =>
              /\ out[1].data.count.t = "number"
              /\ out[1].data.count.n \in 1..12
              /\ out[1].data.movement.s \in {"north", "south", "east", "west", "stationary"}
              /\ out[1].data.source.s \in {"rtsp", "sample"}

\* a failed request produced the largest mock count
C20_Witness ==
    /\ FetchFailed
    /\ input.kind = "failed"
    /\ out[1].data.count = Num(12)
    /\ out[1].data.movement = Str("stationary")

\* startPolling() ran in this step
EntersPolling == downgraded' /\ ~downgraded

\* C21: on entering polling one fetch starts at once, and while stop() is
\* not called every point in time of a polling session has a later poll
\* tick, whatever the earlier fetches returned.
C21_PollingNeverEnds ==
    /\ [][EntersPolling => inflight' = inflight + 1]_vars
    /\ <>[](session = "running" /\ downgraded) => []<><<Ticks>>_vars

\* a tick of the interval in a running session that fell back to polling
C21_Witness ==
    /\ session = "running"
    /\ downgraded
    /\ op = "polltick"
    /\ pollingInterval \in intervals
    /\ inflight = 1

\* C22: after stop() followed by start() the retry counter is 0 and the
\* transport flag is cleared, whatever they were when stop() was called.
C22_StartsFresh ==
    op \in {"start", "restart"} => (reconnectAttempts = 0 /\ ~isUsingSSE)

C24_TimeoutRetries ==
    [][(op' = "timeout" /\ session = "running" /\ reconnectAttempts < maxReconnectAttempts) =>
         /\ reconnectAttempts' = reconnectAttempts + 1
         /\ BagCardinality(retryTimers') = BagCardinality(retryTimers) + 1
         /\ ~EntersPolling]_vars

\* polling is active: the interval this.pollingInterval names is running
PollingActive == pollingInterval # Null /\ pollingInterval \in intervals

\* C25: an error event with fewer than 3 attempts increments the counter
\* first and schedules one retry after 2000 ms times the new value (2000,
\* 4000, 6000 from 0); with 3 attempts no retry is scheduled and the manager
\* moves to polling.
C25_LinearBackoffThenPolling ==
    [][(op' = "onerror" /\ session = "running") =>
         IF reconnectAttempts < 3
         THEN /\ reconnectAttempts' = reconnectAttempts + 1
              /\ retryTimers' = retryTimers (+) SetToBag({2000 * reconnectAttempts'})
         ELSE /\ retryTimers' = retryTimers
              /\ PollingActive']_vars

\* C26: every stream open resets the retry counter to 0, emits 'connected'
\* and makes getConnectionType() return 'sse'; a downgrade by an error event
\* therefore needs more than maxReconnectAttempts failures since the last open.
C26_OpenResetsBudget ==
    /\ op = "onopen" =>
          /\ reconnectAttempts = 0
          /\ Len(out) = 1 /\ out[1].cb = "onStatusChange" /\ out[1].status = "connected"
          /\ getConnectionType = "sse"
    /\ (/\ op = "onerror"
        /\ failures >= 0
        /\ \E k \in 1..Len(out) : out[k].status = "connected")
          => failures > maxReconnectAttempts

\* the stream opened while the retry of an earlier error was still pending
C26_Witness ==
    /\ op = "onopen"
    /\ session = "running"
    /\ retryTimers # EmptyBag
    /\ reconnectAttempts = 0
    /\ getConnectionType = "sse"

\* C27: whenever the EventSource the manager owns is connecting, its
\* connect-timeout timer is pending.
C27_ConnectingHasTimeout ==
    \A i \in DOMAIN sources :
        (eventSource = i /\ sources[i].readyState = "CONNECTING") => sources[i].timeout

\* C28: after start() with no stop(), if the stream never opens, the manager
\* eventually reaches polling, timers being fair.
C28_EventuallyPolling ==
    (op = "start") ~> (downgraded \/ op = "onopen")

\* C29: between a start() and the next stop() startPolling runs at most
\* once, so at most one polling interval exists.
C29_OneDowngrade ==
    Cardinality(intervals) <= 1

\* C30: in polling, a successful poll sets the status the presentation
\* layer sees to connected with transport 'polling'.
C30_PollRestoresStatus ==
    (/\ op = "pollresponse"
     /\ input.kind = "record"
     /\ session = "running"
     /\ downgraded
     /\ PollingActive)
        => (status.isLive /\ status.connectionType = "polling")

\* C31: when a record carries both 'bison_count' and 'count', the canonical
\* count is the value of 'bison_count', including when that value is 0.
C31_BisonCountFirst ==
    (/\ Normalized
     /\ input.rec.bison_count.t = "number"
     /\ input.rec.count.t = "number")
        => out[1].data.count = input.rec.bison_count

\* C32: only a delivered event changes the buffer and the KPI snapshot:
\* status callbacks, stop(), start() and restart() leave both unchanged.
C32_OnlyAppendMutates ==
    [][(\/ op' \in {"start", "stop", "restart"}
        \/ Delivered(out') = <<>>) => UNCHANGED <<detections, kpiData>>]_vars

\* 'disconnected' or 'error' was reported to a hook that holds an event
C32_Witness ==
    /\ op \in {"stop", "restart", "onerror"}
    /\ Len(out) >= 1
    /\ out[1].cb = "onStatusChange"
    /\ detections # <<>>
    /\ kpiData.lastUpdate = LatestOf(detections).timestamp
    /\ ~status.isLive

\* C33: restart() from polling clears the polling interval, emits
\* 'disconnected' and begins a new stream attempt; no interval of the old
\* loop is left to tick.
C33_RestartEndsPolling ==
    [][(op' = "restart" /\ pollingInterval # Null) =>
         /\ pollingInterval' = Null
         /\ intervals' = {}
         /\ Len(out') = 1 /\ out'[1].status = "disconnected"
         /\ Len(sources') = Len(sources) + 1
         /\ eventSource' = Len(sources')
         /\ sources'[eventSource'].readyState = "CONNECTING"]_vars

\* C34: reconnectAttempts stays within 0..maxReconnectAttempts; only an
\* error event with the counter below 3 increments it, only an open sets
\* it to 0.
C34_CounterInRange ==
    /\ [](reconnectAttempts \in 0..3)
    /\ [][reconnectAttempts' # reconnectAttempts =>
            \/ /\ op' = "onerror"
               /\ reconnectAttempts < 3
               /\ reconnectAttempts' = reconnectAttempts + 1
            \/ /\ op' = "onopen"
               /\ reconnectAttempts' = 0]_vars

\* the counter at its maximum after an error event
C34_Witness ==
    /\ op = "onerror"
    /\ reconnectAttempts = maxReconnectAttempts
    /\ retryTimers # EmptyBag

\* C35: in a session with a single start() every EventSource other than the
\* manager's current one is closed, so at most one is not closed.
C35_OneLiveSource ==
    \A i \in DOMAIN sources : sources[i].readyState # "CLOSED" => i = eventSource

\* a retry replaced a closed EventSource by a new one
C35_Witness ==
    /\ op = "retry"
    /\ Len(sources) = 2
    /\ sources[1].readyState = "CLOSED"
    /\ sources[2].readyState = "CONNECTING"
    /\ eventSource = 2

\* C36: a retry timer that fires after stop() and before a new start()
\* creates no EventSource, starts no polling and invokes no callback.
C36_RetryAfterStopIdle ==
    [][(op' = "retry" /\ session = "stopped") =>
         /\ sources' = sources
         /\ UNCHANGED <<mgrVars, intervals, intervalsCreated, inflight>>
         /\ out' = <<>>]_vars

\* a retry timer fired in a stopped session
C36_Witness ==
    /\ op = "retry"
    /\ session = "stopped"
    /\ eventSource = Null
    /\ \E i \in DOMAIN sources : sources[i].readyState = "CLOSED"

\* C37: the status the hook keeps is coherent: isLive implies that
\* connectionType is 'sse' or 'polling'.
C37_StatusCoherent ==
    status.isLive => status.connectionType \in {"sse", "polling"}

\* the manager's current EventSource is open
Streaming == eventSource # Null /\ sources[eventSource].readyState = "OPEN"

\* C38: once the manager has reached streaming or polling in a session that
\* is not stopped, the promise start() returned has settled.
C38_StartReturned ==
    (session = "running" /\ (Streaming \/ PollingActive))
        => startPromise(sources[1].promise) # "pending"

\* C39: the stream-path transform and the poll-path transform map the same
\* raw record to the same event: what either path delivered is what the
\* other path's transform yields for that record.
C39_SameNormalizer ==
    Normalized =>
        out[1].data = IF op = "onmessage"
                      THEN TransformLatest(input.rec, now)
                      ELSE Transform(input.rec, now)

\* the poll path normalized a record with an empty timestamp, a zero
\* bison_count next to a count, and a null movement
C39_Witness ==
    /\ Normalized
    /\ op = "pollresponse"
    /\ input.rec.timestamp = Str("")
    /\ input.rec.bison_count = Num(0)
    /\ input.rec.count = Num(5)
    /\ input.rec.movement = JsonNull
    /\ out[1].data.count = Num(5)
    /\ out[1].data.timestamp = toISOString(now)

====
